---- MODULE Spec2Model ----
(***************************************************************************)
(* A model of ytmusic_playlist_creator.py: the curl capture parser, the    *)
(* session bootstrapper, the setlist reader, the playlist builder and      *)
(* main.  Text is modelled as a sequence of one-character strings, and the *)
(* string operations the program uses (split, strip, lower, find, slices)  *)
(* are operators over such sequences, with Python's 0-based indices.       *)
(***************************************************************************)
EXTENDS Integers, Sequences, FiniteSets, TLC

(* ---------------------------------------------------------------- bounds *)

\* The longest setlist the playlist builder is called with directly.
MaxSongs == 3
\* The number of pieces a generated capture text is concatenated from.
MaxPieces == 4
\* The number of characters of a generated setlist file.
MaxFileLen == 5

(* --------------------------------------------------------- option values *)

\* Python's None, and a present value: an option is a sequence of length <= 1.
None ==
    <<>>
Some(x) ==
    <<x>>

(* ------------------------------------------------------ string operators *)

\* The characters str.strip() removes.
Whitespace ==
    {" ", "\t", "\n", "\r", "\f"}

UpperChars ==
    <<"A","B","C","D","E","F","G","H","I","J","K","L","M",
      "N","O","P","Q","R","S","T","U","V","W","X","Y","Z">>
LowerChars ==
    <<"a","b","c","d","e","f","g","h","i","j","k","l","m",
      "n","o","p","q","r","s","t","u","v","w","x","y","z">>

LowerChar(c) ==
    IF \E i \in DOMAIN UpperChars : UpperChars[i] = c
    THEN LowerChars[CHOOSE i \in DOMAIN UpperChars : UpperChars[i] = c]
    ELSE c

\* str.lower()
Lower(s) ==
    [i \in DOMAIN s |-> LowerChar(s[i])]

SetMin(S) ==
    CHOOSE x \in S : \A y \in S : x <= y
SetMax(S) ==
    CHOOSE x \in S : \A y \in S : y <= x

\* str.strip()
Strip(s) ==
    LET keep == {i \in DOMAIN s : s[i] \notin Whitespace}
    IN  IF keep = {} THEN <<>> ELSE SubSeq(s, SetMin(keep), SetMax(keep))

\* s[a:b] and s[a:], for 0 <= a
PySlice(s, a, b) ==
    SubSeq(s, a + 1, b)
PySliceFrom(s, a) ==
    SubSeq(s, a + 1, Len(s))

\* s.find(pat, start): the 0-based index of the first occurrence at or after
\* start, or -1
PyFind(s, pat, start) ==
    LET at == {i \in start .. (Len(s) - Len(pat)) :
                   SubSeq(s, i + 1, i + Len(pat)) = pat}
    IN  IF at = {} THEN -1 ELSE SetMin(at)

\* pat in s
Contains(s, pat) ==
    PyFind(s, pat, 0) # -1

\* s.split(sep) for a one-character sep: always at least one part
RECURSIVE Split(_, _)
Split(s, sep) ==
    LET i == PyFind(s, <<sep>>, 0)
    IN  IF i = -1 THEN <<s>>
        ELSE <<PySlice(s, 0, i)>> \o Split(PySliceFrom(s, i + 1), sep)

\* f.readlines(): the lines of the text, each keeping its line break
RECURSIVE ReadLines(_)
ReadLines(s) ==
    LET i == PyFind(s, <<"\n">>, 0)
    IN  IF s = <<>> THEN <<>>
        ELSE IF i = -1 THEN <<s>>
        ELSE <<PySlice(s, 0, i + 1)>> \o ReadLines(PySliceFrom(s, i + 1))

(* ------------------------------------------------- curl capture parser *)

MarkerHSingle ==
    <<"-","H"," ","'">>
MarkerHDouble ==
    <<"-","H"," ","\"">>
MarkerBSingle ==
    <<"-","b"," ","'">>
MarkerBDouble ==
    <<"-","b"," ","\"">>
KeyAuthorization ==
    <<"a","u","t","h","o","r","i","z","a","t","i","o","n">>
KeyCookie ==
    <<"c","o","o","k","i","e">>

\* The text after a flag marker up to the closing quote, or the rest of the
\* fragment when the quote is not closed.
QuotedAfter(line, marker, quote) ==
    LET start == PyFind(line, marker, 0) + 4
        end   == PyFind(line, <<quote>>, start)
    IN  IF end = -1 THEN PySliceFrom(line, start) ELSE PySlice(line, start, end)

HasHeaderMarker(line) ==
    Contains(line, MarkerHSingle) \/ Contains(line, MarkerHDouble)
HasCookieMarker(line) ==
    Contains(line, MarkerBSingle) \/ Contains(line, MarkerBDouble)

\* header_content of a fragment that holds a header marker: the single-quote
\* marker is looked for first.
HeaderContent(line) ==
    IF Contains(line, MarkerHSingle)
    THEN QuotedAfter(line, MarkerHSingle, "'")
    ELSE QuotedAfter(line, MarkerHDouble, "\"")

\* cookie_content of a fragment that holds a cookie marker.
CookieContent(line) ==
    IF Contains(line, MarkerBSingle)
    THEN QuotedAfter(line, MarkerBSingle, "'")
    ELSE QuotedAfter(line, MarkerBDouble, "\"")

\* key, value = header_content.split(':', 1)
HeaderKey(content) ==
    Lower(Strip(PySlice(content, 0, PyFind(content, <<":">>, 0))))
HeaderValue(content) ==
    Strip(PySliceFrom(content, PyFind(content, <<":">>, 0) + 1))

\* headers[key] = value
Store(headers, key, value) ==
    (key :> value) @@ headers

\* One pass of the for loop over the fragments: a fragment holding a header
\* marker is read as a header and is never looked at for a cookie (elif).
ScanLine(headers, raw) ==
    LET line == Strip(raw)
    IN  IF HasHeaderMarker(line)
        THEN IF Contains(HeaderContent(line), <<":">>)
             THEN Store(headers, HeaderKey(HeaderContent(line)),
                        HeaderValue(HeaderContent(line)))
             ELSE headers
        ELSE IF HasCookieMarker(line)
        THEN Store(headers, KeyCookie, CookieContent(line))
        ELSE headers

CriticalHeaders ==
    <<KeyAuthorization, KeyCookie>>

\* A faulty variant of MissingCritical: only authorization is looked for.
MissingAuthorizationOnly(headers) ==
    SelectSeq(<<KeyAuthorization>>, LAMBDA h : h \notin DOMAIN headers)

\* missing = [h for h in critical_headers if h not in headers]
MissingCritical(headers) ==
    SelectSeq(CriticalHeaders, LAMBDA h : h \notin DOMAIN headers)

KeyAccept ==
    <<"a","c","c","e","p","t">>
KeyAcceptLanguage ==
    <<"a","c","c","e","p","t","-","l","a","n","g","u","a","g","e">>
KeyContentType ==
    <<"c","o","n","t","e","n","t","-","t","y","p","e">>
KeyOrigin ==
    <<"o","r","i","g","i","n">>
KeyReferer ==
    <<"r","e","f","e","r","e","r">>
KeyXOrigin ==
    <<"x","-","o","r","i","g","i","n">>
KeyLoggedIn ==
    <<"x","-","y","o","u","t","u","b","e","-","b","o","o","t","s","t","r","a","p","-","l","o","g","g","e","d","-","i","n">>
KeyClientName ==
    <<"x","-","y","o","u","t","u","b","e","-","c","l","i","e","n","t","-","n","a","m","e">>
KeyClientVersion ==
    <<"x","-","y","o","u","t","u","b","e","-","c","l","i","e","n","t","-","v","e","r","s","i","o","n">>
ValAccept ==
    <<"*","/","*">>
ValAcceptLanguage ==
    <<"e","n","-","U","S",",","e","n",";","q","=","0",".","9">>
ValContentType ==
    <<"a","p","p","l","i","c","a","t","i","o","n","/","j","s","o","n">>
ValOrigin ==
    <<"h","t","t","p","s",":","/","/","m","u","s","i","c",".","y","o","u","t","u","b","e",".","c","o","m">>
ValReferer ==
    <<"h","t","t","p","s",":","/","/","m","u","s","i","c",".","y","o","u","t","u","b","e",".","c","o","m","/">>
ValXOrigin ==
    <<"h","t","t","p","s",":","/","/","m","u","s","i","c",".","y","o","u","t","u","b","e",".","c","o","m">>
ValLoggedIn ==
    <<"t","r","u","e">>
ValClientName ==
    <<"6","7">>
ValClientVersion ==
    <<"1",".","2","0","2","5","0","8","1","1",".","0","3",".","0","0">>

\* The fixed table of default header values.
Defaults ==
    (KeyAccept :> ValAccept)
    @@ (KeyAcceptLanguage :> ValAcceptLanguage)
    @@ (KeyContentType :> ValContentType)
    @@ (KeyOrigin :> ValOrigin)
    @@ (KeyReferer :> ValReferer)
    @@ (KeyXOrigin :> ValXOrigin)
    @@ (KeyLoggedIn :> ValLoggedIn)
    @@ (KeyClientName :> ValClientName)
    @@ (KeyClientVersion :> ValClientVersion)

\* for key, value in defaults.items(): if key not in headers: headers[key] = value
AddDefaults(headers) ==
    headers @@ Defaults

EmptyDict ==
    [k \in {} |-> <<>>]

(* ------------------------------------------------------- setlist reader *)

\* A faulty variant of KeepLine: comment lines are kept.
KeepLineWithComments(line) ==
    line # <<>>

\* if line and not line.startswith('#'), for a line already stripped
KeepLine(line) ==
    line # <<>> /\ Head(line) # "#"

(* ------------------------------------------------- session bootstrapper *)

\* The client object YTMusic('headers_auth.json') constructs.
Client ==
    "YTMusic"

\* if headers: a dict is true when it is not None and not empty
HeadersTruthy(parsed) ==
    parsed # None /\ DOMAIN parsed[1] # {}

\* What can happen after a successful parse: both steps succeed, writing
\* headers_auth.json raises, or the YTMusic constructor raises.
BootstrapOutcomes ==
    {"ok", "write_raises", "client_raises"}

\* A faulty variant of BootstrapClient: a failed parse is not looked at, and
\* the client is constructed from whatever credential file there is.
BootstrapClientDespiteParse(parsed, outcome) ==
    IF outcome = "ok" THEN Some(Client) ELSE None

\* The client setup_ytmusic returns: None unless the parse gave headers and
\* neither the write nor the constructor raised.
BootstrapClient(parsed, outcome) ==
    IF HeadersTruthy(parsed) /\ outcome = "ok" THEN Some(Client) ELSE None

\* headers_auth.json after setup_ytmusic: written when the parse gave headers
\* and open/json.dump did not raise.
BootstrapFile(old, parsed, outcome) ==
    IF HeadersTruthy(parsed) /\ outcome # "write_raises" THEN parsed ELSE old

(* ------------------------------------------------------------ remote API *)

\* A response of the remote API: it raises, or returns val.
Raises ==
    [kind |-> "raise", val |-> <<>>]
Returns(v) ==
    [kind |-> "ok", val |-> v]

PlaylistIds ==
    {"PL1", "PL2"}

\* create_playlist returns an identifier or raises.
CreateResponses ==
    {Raises} \cup {Returns(<<id>>) : id \in PlaylistIds}

\* A search result: the keys the loop reads.  videoId may be absent
\* (KeyError); artists may be absent (the default [{}] is used), an empty
\* list (IndexError) or a list of artists.
ResultGood ==
    [videoId |-> Some("v1"), artists |-> Some(<<"artist">>)]
ResultNoVideoId ==
    [videoId |-> None, artists |-> Some(<<"artist">>)]
ResultNoArtists ==
    [videoId |-> Some("v2"), artists |-> Some(<<>>)]
ResultArtistsAbsent ==
    [videoId |-> Some("v3"), artists |-> None]

\* search raises, returns no result, or returns a list of results.
SearchResponses ==
    {Raises, Returns(<<>>), Returns(<<ResultGood, ResultNoVideoId>>),
     Returns(<<ResultNoVideoId>>), Returns(<<ResultNoArtists>>),
     Returns(<<ResultArtistsAbsent>>)}

\* add_playlist_items returns or raises.
AddResponses ==
    {Raises, Returns(<<>>)}

\* Whether the try body reaches the add call: the search returned a
\* non-empty list whose first result has a videoId and whose artists, when
\* given, is not an empty list.
ReachesAdd(search) ==
    /\ search.kind = "ok"
    /\ search.val # <<>>
    /\ search.val[1].videoId # None
    /\ search.val[1].artists # Some(<<>>)

\* successful_adds += 1 is reached: the add call was made and returned.
SongAdded(search, add) ==
    ReachesAdd(search) /\ add.kind = "ok"

\* A faulty variant of RecordFailure: the song is put in front.
RecordFailureInFront(failed, song) ==
    <<song>> \o failed

\* failed_songs.append(song), in the else branch and in the except clause.
RecordFailure(failed, song) ==
    Append(failed, song)

\* The remote calls one pass of the loop issues.
SongCalls(playlist, song, search, add) ==
    <<[op |-> "search", arg |-> <<song>>, resp |-> search]>>
    \o (IF ReachesAdd(search)
        THEN <<[op |-> "add", arg |-> <<playlist, search.val[1].videoId[1]>>,
                resp |-> add]>>
        ELSE <<>>)

(* ------------------------------------------------------------------ main *)

AnswerY ==
    <<"y">>
AnswerYes ==
    <<"y","e","s">>
DefaultPlaylistName ==
    <<"C","o","n","c","e","r","t"," ","P","l","a","y","l","i","s","t">>

\* playlist_name = input(...).strip(), or the default when empty
PlaylistNameOf(answer) ==
    IF Strip(answer) = <<>> THEN DefaultPlaylistName ELSE Strip(answer)

\* confirm = input(...).strip().lower()
ConfirmOf(answer) ==
    Lower(Strip(answer))

\* A faulty variant of Confirmed: everything but 'n' confirms.
ConfirmedUnlessNo(confirm) ==
    confirm # <<"n">>

\* not (confirm not in ['y', 'yes'])
Confirmed(confirm) ==
    confirm \in {AnswerY, AnswerYes}

\* description = f"Setlist with {len(setlist)} songs imported from setlist.txt"
DescriptionOf(setlist) ==
    <<"Setlist with ", Len(setlist), " songs imported from setlist.txt">>

\* if playlist_id: None and the empty string are false
IdTruthy(r) ==
    r # None /\ r[1] # ""

(* ---------------------------------------------------------------- inputs *)

\* The pieces capture texts are concatenated from: the line continuation, an
\* authorization header in single and in double quotes, a cookie flag with a
\* closed and with an unclosed quote, an explicit content-type, a cookie given
\* as a header, a header without a colon, and text without a flag.
PieceSep ==
    <<" ","\\","\n"," ">>
PieceAuthSingle ==
    <<"-","H"," ","'","a","u","t","h","o","r","i","z","a","t","i","o","n",":"," ","t","'">>
PieceAuthDouble ==
    <<"-","H"," ","\"","A","u","t","h","o","r","i","z","a","t","i","o","n",":","u","\"">>
PieceCookieSingle ==
    <<"-","b"," ","'","c","=","1","'">>
PieceCookieOpen ==
    <<"-","b"," ","\"","d">>
PieceContentType ==
    <<"-","H"," ","'","C","o","n","t","e","n","t","-","T","y","p","e",":"," ","x","'">>
PieceCookieHeader ==
    <<"-","H"," ","'","c","o","o","k","i","e",":"," ","e","'">>
PieceNoColon ==
    <<"-","H"," ","'","a","c","c","e","p","t">>
PieceUrl ==
    <<"c","u","r","l"," ","'","m","'">>
Pieces ==
    {PieceSep,
     PieceAuthSingle,
     PieceAuthDouble,
     PieceCookieSingle,
     PieceCookieOpen,
     PieceContentType,
     PieceCookieHeader,
     PieceNoColon,
     PieceUrl}

RECURSIVE Concat(_)
Concat(parts) ==
    IF parts = <<>> THEN <<>> ELSE Head(parts) \o Concat(Tail(parts))

\* Every text of at most MaxPieces pieces.
CaptureTexts ==
    {Concat(ps) : ps \in UNION {[1 .. n -> Pieces] : n \in 0 .. MaxPieces}}

\* paste.txt of the runs of main and of the playlist builder: absent, a
\* complete capture, a capture without a cookie, and a capture whose header
\* and cookie flags share one fragment.
PasteComplete ==
    Concat(<<PieceUrl, PieceSep, PieceAuthSingle, PieceSep, PieceCookieSingle>>)
PasteNoCookie ==
    Concat(<<PieceUrl, PieceSep, PieceAuthSingle>>)
PasteOneLine ==
    Concat(<<PieceUrl, <<" ">>, PieceAuthSingle, <<" ">>, PieceCookieSingle>>)
RunPasteFiles ==
    {None, Some(PasteComplete), Some(PasteNoCookie), Some(PasteOneLine)}

\* The characters of generated setlist files, and every file of at most
\* MaxFileLen characters.
FileChars ==
    {"a", "b", "#", " ", "\n"}
SetlistFiles ==
    UNION {[1 .. n -> FileChars] : n \in 0 .. MaxFileLen}

\* setlist.txt of the runs of main: absent, comments and blank lines only,
\* and two files with songs between blank and comment lines.
FileCommentsOnly ==
    <<"#"," ","c","\n","\n"," "," ","\n">>
FileTwoSongs ==
    <<"a"," ","b","\n","\n","#"," ","c","\n"," ","b"," ","\n">>
FileThreeSongs ==
    <<"b","\n"," ","#","\n","a","\n","b">>
RunSetlistFiles ==
    {None, Some(FileCommentsOnly), Some(FileTwoSongs), Some(FileThreeSongs)}

\* The setlists the playlist builder is called with directly.
Songs ==
    {<<"a">>, <<"b">>}
SetlistArgs ==
    UNION {[1 .. n -> Songs] : n \in 0 .. MaxSongs}

\* What the user types at the two prompts.
NameEmpty ==
    <<" ">>
NameGig ==
    <<" ","G","i","g"," ">>
AnswerUpperYes ==
    <<" ","Y","E","S"," ">>
AnswerNo ==
    <<"n">>
AnswerEmpty ==
    <<>>
AnswerYeah ==
    <<"y","e","a","h">>
NameAnswers ==
    {NameEmpty, NameGig}
ConfirmAnswers ==
    {AnswerY, AnswerYes, AnswerUpperYes, AnswerNo, AnswerEmpty, AnswerYeah}

(* ----------------------------------------------------------------- state *)

VARIABLES
    entry,            \* the function the run calls: the module's entry point
    pc,               \* the statement the run is at
    stack,            \* the statements the pending calls return to
    setlist_file,     \* setlist.txt: None when absent, else Some(text)
    paste_file,       \* paste.txt: None when absent, else Some(text)
    credential_file,  \* headers_auth.json: None when absent, else Some(map)
    file_lines,       \* read_setlist_from_file: lines
    rd_i,             \* read_setlist_from_file: the line the loop is at
    setlist,          \* the setlist: the reader's result, main's and the
                      \* builder's setlist
    curl_lines,       \* extract_headers_from_curl: lines (the fragments)
    cl_i,             \* extract_headers_from_curl: the fragment the loop is at
    headers,          \* extract_headers_from_curl: headers
    parsed,           \* what extract_headers_from_curl returned
    ytmusic,          \* what setup_ytmusic returned: None or Some(Client)
    playlist_name,    \* the playlist name
    description,      \* the playlist description
    confirm,          \* main: confirm
    playlist_id,      \* create_playlist_from_setlist: playlist_id, None before
    successful_adds,  \* create_playlist_from_setlist: successful_adds
    failed_songs,     \* create_playlist_from_setlist: failed_songs
    song_i,           \* create_playlist_from_setlist: i of the loop
    summary,          \* the summary printed after the loop, None before
    ret,              \* what create_playlist_from_setlist returned
    calls,            \* the remote calls issued so far, with their responses
    url_printed,      \* main printed the playlist URL
    read_error,       \* reading setlist.txt raised another error than
                      \* FileNotFoundError (the reader reported it)
    bootstrap         \* what happened when setup_ytmusic wrote the credential
                      \* file and constructed the client: "none" before

vars ==
    <<entry, pc, stack, setlist_file, paste_file, credential_file, file_lines,
      rd_i, setlist, curl_lines, cl_i, headers, parsed, ytmusic, playlist_name,
      description, confirm, playlist_id, successful_adds, failed_songs, song_i,
      summary, ret, calls, url_printed, read_error, bootstrap>>

\* A value for "returned nothing yet", distinct from a returned None.
NotReturned ==
    <<"not", "returned">>

Entries ==
    {"main", "create_playlist_from_setlist", "read_setlist_from_file",
     "extract_headers_from_curl"}

EntryLabel(e) ==
    CASE e = "main" -> "main_start"
      [] e = "create_playlist_from_setlist" -> "create_start"
      [] e = "read_setlist_from_file" -> "read_open"
      [] e = "extract_headers_from_curl" -> "extract_open"

\* The files and arguments each entry point is run with.
InitInputs ==
    \/ /\ entry = "main"
       /\ setlist_file \in RunSetlistFiles
       /\ paste_file \in RunPasteFiles
       /\ setlist = <<>>
       /\ playlist_name = <<>>
    \/ /\ entry = "create_playlist_from_setlist"
       /\ setlist_file = None
       /\ paste_file \in RunPasteFiles
       /\ setlist \in SetlistArgs
       /\ playlist_name = DefaultPlaylistName
    \/ /\ entry = "read_setlist_from_file"
       /\ setlist_file \in {None} \cup {Some(f) : f \in SetlistFiles}
       /\ paste_file = None
       /\ setlist = <<>>
       /\ playlist_name = <<>>
    \/ /\ entry = "extract_headers_from_curl"
       /\ setlist_file = None
       /\ paste_file \in {None} \cup {Some(t) : t \in CaptureTexts}
       /\ setlist = <<>>
       /\ playlist_name = <<>>

Init ==
    /\ entry \in Entries
    /\ InitInputs
    /\ pc = EntryLabel(entry)
    /\ stack = <<>>
    /\ credential_file = None
    /\ file_lines = <<>>
    /\ rd_i = 1
    /\ curl_lines = <<>>
    /\ cl_i = 1
    /\ headers = EmptyDict
    /\ parsed = NotReturned
    /\ ytmusic = NotReturned
    /\ description = <<>>
    /\ confirm = <<>>
    /\ playlist_id = None
    /\ successful_adds = 0
    /\ failed_songs = <<>>
    /\ song_i = 1
    /\ summary = None
    /\ ret = NotReturned
    /\ calls = <<>>
    /\ url_printed = FALSE
    /\ read_error = FALSE
    /\ bootstrap = "none"

\* A call: run the callee, then continue at `after`.
Call(callee, after) ==
    /\ pc' = callee
    /\ stack' = <<after>> \o stack

\* A return: continue where the caller waits, or end the run.
Return ==
    IF stack = <<>>
    THEN pc' = "done" /\ stack' = stack
    ELSE pc' = Head(stack) /\ stack' = Tail(stack)

(* ------------------------------------------- extract_headers_from_curl *)

\* open and read the file, split it on backslashes; a file that cannot be
\* opened raises, which the except clause turns into None.
ExtractOpen ==
    /\ pc = "extract_open"
    /\ IF paste_file = None
       THEN /\ parsed' = None
            /\ Return
            /\ UNCHANGED <<curl_lines, cl_i, headers>>
       ELSE /\ curl_lines' = Split(paste_file[1], "\\")
            /\ cl_i' = 1
            /\ headers' = EmptyDict
            /\ pc' = "extract_scan"
            /\ UNCHANGED <<parsed, stack>>
    /\ UNCHANGED <<read_error, bootstrap, entry, setlist_file, paste_file, credential_file, file_lines,
                   rd_i, setlist, ytmusic, playlist_name, description, confirm,
                   playlist_id, successful_adds, failed_songs, song_i, summary,
                   ret, calls, url_printed>>

\* One pass of the loop over the fragments.
ExtractScan ==
    /\ pc = "extract_scan"
    /\ cl_i <= Len(curl_lines)
    /\ headers' = ScanLine(headers, curl_lines[cl_i])
    /\ cl_i' = cl_i + 1
    /\ UNCHANGED <<read_error, bootstrap, entry, pc, stack, setlist_file, paste_file, credential_file,
                   file_lines, rd_i, setlist, curl_lines, parsed, ytmusic,
                   playlist_name, description, confirm, playlist_id,
                   successful_adds, failed_songs, song_i, summary, ret, calls,
                   url_printed>>

\* After the loop: None when a critical header is missing, else the headers
\* with the defaults filled in.
ExtractFinish ==
    /\ pc = "extract_scan"
    /\ cl_i > Len(curl_lines)
    /\ IF MissingCritical(headers) # <<>>
       THEN /\ parsed' = None
            /\ UNCHANGED headers
       ELSE /\ headers' = AddDefaults(headers)
            /\ parsed' = Some(headers')
    /\ Return
    /\ UNCHANGED <<read_error, bootstrap, entry, setlist_file, paste_file, credential_file, file_lines,
                   rd_i, setlist, curl_lines, cl_i, ytmusic, playlist_name,
                   description, confirm, playlist_id, successful_adds,
                   failed_songs, song_i, summary, ret, calls, url_printed>>

(* -------------------------------------------------------- setup_ytmusic *)

\* os.path.exists('paste.txt'): parse it, or return None.
SetupStart ==
    /\ pc = "setup_start"
    /\ IF paste_file # None
       THEN /\ Call("extract_open", "setup_after_extract")
            /\ UNCHANGED ytmusic
       ELSE /\ ytmusic' = None
            /\ Return
    /\ UNCHANGED <<read_error, bootstrap, entry, setlist_file, paste_file, credential_file, file_lines,
                   rd_i, setlist, curl_lines, cl_i, headers, parsed,
                   playlist_name, description, confirm, playlist_id,
                   successful_adds, failed_songs, song_i, summary, ret, calls,
                   url_printed>>

\* if headers: write headers_auth.json and construct the client; an exception
\* of either step is caught and None is returned.
SetupAfterExtract ==
    /\ pc = "setup_after_extract"
    /\ \E outcome \in BootstrapOutcomes :
          /\ credential_file' = BootstrapFile(credential_file, parsed, outcome)
          /\ ytmusic' = BootstrapClient(parsed, outcome)
          /\ bootstrap' = IF HeadersTruthy(parsed) THEN outcome ELSE "skipped"
    /\ Return
    /\ UNCHANGED <<read_error, entry, setlist_file, paste_file, file_lines, rd_i, setlist,
                   curl_lines, cl_i, headers, parsed, playlist_name,
                   description, confirm, playlist_id, successful_adds,
                   failed_songs, song_i, summary, ret, calls, url_printed>>

(* ----------------------------------------------- read_setlist_from_file *)

\* open and readlines: a missing file, or any other error, gives [].
ReadOpen ==
    /\ pc = "read_open"
    /\ \E io \in {"ok", "error"} :
          IF setlist_file = None \/ io = "error"
          THEN /\ setlist' = <<>>
               /\ read_error' = (setlist_file # None)
               /\ Return
               /\ UNCHANGED <<file_lines, rd_i>>
          ELSE /\ file_lines' = ReadLines(setlist_file[1])
               /\ rd_i' = 1
               /\ setlist' = <<>>
               /\ pc' = "read_scan"
               /\ UNCHANGED <<stack, read_error>>
    /\ UNCHANGED <<bootstrap, entry, setlist_file, paste_file, credential_file, curl_lines,
                   cl_i, headers, parsed, ytmusic, playlist_name, description,
                   confirm, playlist_id, successful_adds, failed_songs, song_i,
                   summary, ret, calls, url_printed>>

\* One pass of the loop over the lines.
ReadScan ==
    /\ pc = "read_scan"
    /\ rd_i <= Len(file_lines)
    /\ LET line == Strip(file_lines[rd_i])
       IN  setlist' = IF KeepLine(line) THEN Append(setlist, line) ELSE setlist
    /\ rd_i' = rd_i + 1
    /\ UNCHANGED <<read_error, bootstrap, entry, pc, stack, setlist_file, paste_file, credential_file,
                   file_lines, curl_lines, cl_i, headers, parsed, ytmusic,
                   playlist_name, description, confirm, playlist_id,
                   successful_adds, failed_songs, song_i, summary, ret, calls,
                   url_printed>>

\* return setlist
ReadReturn ==
    /\ pc = "read_scan"
    /\ rd_i > Len(file_lines)
    /\ Return
    /\ UNCHANGED <<read_error, bootstrap, entry, setlist_file, paste_file, credential_file, file_lines,
                   rd_i, setlist, curl_lines, cl_i, headers, parsed, ytmusic,
                   playlist_name, description, confirm, playlist_id,
                   successful_adds, failed_songs, song_i, summary, ret, calls,
                   url_printed>>

(* ----------------------------------------- create_playlist_from_setlist *)

\* ytmusic = setup_ytmusic()
CreateStart ==
    /\ pc = "create_start"
    /\ Call("setup_start", "create_after_setup")
    /\ UNCHANGED <<read_error, bootstrap, entry, setlist_file, paste_file, credential_file, file_lines,
                   rd_i, setlist, curl_lines, cl_i, headers, parsed, ytmusic,
                   playlist_name, description, confirm, playlist_id,
                   successful_adds, failed_songs, song_i, summary, ret, calls,
                   url_printed>>

\* A faulty variant of CreateFails: the exception is swallowed and the loop runs.
CreateErrorSwallowed(resp) ==
    FALSE

\* An exception of create_playlist leaves the outer try for its except clause.
CreateFails(resp) ==
    resp.kind = "raise"

\* if not ytmusic: return None.  Else create the playlist: an exception is
\* caught by the outer except clause, which returns None.
CreatePlaylist ==
    /\ pc = "create_after_setup"
    /\ IF ytmusic = None
       THEN /\ ret' = None
            /\ Return
            /\ UNCHANGED <<playlist_id, successful_adds, failed_songs, song_i,
                           calls>>
       ELSE \E resp \in CreateResponses :
               /\ calls' = Append(calls, [op |-> "create",
                                          arg |-> <<playlist_name, description>>,
                                          resp |-> resp])
               /\ IF CreateFails(resp)
                  THEN /\ ret' = None
                       /\ Return
                       /\ UNCHANGED <<playlist_id, successful_adds,
                                      failed_songs, song_i>>
                  ELSE /\ playlist_id' = resp.val
                       /\ successful_adds' = 0
                       /\ failed_songs' = <<>>
                       /\ song_i' = 1
                       /\ pc' = "song_loop"
                       /\ UNCHANGED <<stack, ret>>
    /\ UNCHANGED <<read_error, bootstrap, entry, setlist_file, paste_file, credential_file, file_lines,
                   rd_i, setlist, curl_lines, cl_i, headers, parsed, ytmusic,
                   playlist_name, description, confirm, summary, url_printed>>

\* How one pass of the loop ends: the song was added, the search found
\* nothing (the else branch), or a step raised (the except clause).
SongOutcome(search, add) ==
    IF SongAdded(search, add) THEN "added"
    ELSE IF search.kind = "ok" /\ search.val = <<>> THEN "not_found"
    ELSE "error"

\* A faulty variant of SongFailures: the except clause does not record the song.
SongFailuresWithoutErrors ==
    {"not_found"}

\* The outcomes after which the song is appended to failed_songs.
SongFailures ==
    {"not_found", "error"}

\* A faulty variant of InnerTryCatches: the exception leaves the loop for the
\* outer except clause.
InnerTryMissing(outcome) ==
    FALSE

\* The inner try catches every exception a step of the pass raises, so the
\* loop goes on with the next song.
InnerTryCatches(outcome) ==
    TRUE

\* One pass of the loop over the setlist.
SongLoop ==
    /\ pc = "song_loop"
    /\ song_i <= Len(setlist)
    /\ \E search \in SearchResponses, add \in AddResponses :
          LET song    == setlist[song_i]
              outcome == SongOutcome(search, add)
          IN  /\ calls' = calls \o SongCalls(playlist_id, song, search, add)
              /\ successful_adds' =
                     IF outcome = "added" THEN successful_adds + 1
                     ELSE successful_adds
              /\ IF outcome = "error" /\ ~InnerTryCatches(outcome)
                 THEN /\ ret' = None
                      /\ Return
                      /\ UNCHANGED <<failed_songs, song_i>>
                 ELSE /\ failed_songs' =
                            IF outcome \in SongFailures
                            THEN RecordFailure(failed_songs, song)
                            ELSE failed_songs
                      /\ song_i' = song_i + 1
                      /\ UNCHANGED <<pc, stack, ret>>
    /\ UNCHANGED <<read_error, bootstrap, entry, setlist_file, paste_file, credential_file, file_lines,
                   rd_i, setlist, curl_lines, cl_i, headers, parsed, ytmusic,
                   playlist_name, description, confirm, playlist_id, summary,
                   url_printed>>

\* What the summary prints: the playlist name, the count of added songs out
\* of the setlist's length, and the failed songs one per line.
SummaryOf(name, adds, songs, failed) ==
    [name |-> name, added |-> adds, total |-> Len(songs), failed |-> failed]

\* What the function returns after the summary: playlist_id alone.
ReturnValue(id, adds, songs, failed) ==
    id

\* After the loop: print the summary and return playlist_id.
Summary ==
    /\ pc = "song_loop"
    /\ song_i > Len(setlist)
    /\ summary' = Some(SummaryOf(playlist_name, successful_adds, setlist,
                                 failed_songs))
    /\ ret' = ReturnValue(playlist_id, successful_adds, setlist, failed_songs)
    /\ Return
    /\ UNCHANGED <<read_error, bootstrap, entry, setlist_file, paste_file, credential_file, file_lines,
                   rd_i, setlist, curl_lines, cl_i, headers, parsed, ytmusic,
                   playlist_name, description, confirm, playlist_id,
                   successful_adds, failed_songs, song_i, calls, url_printed>>

(* ------------------------------------------------------------------ main *)

\* setlist = read_setlist_from_file("setlist.txt")
MainStart ==
    /\ pc = "main_start"
    /\ Call("read_open", "main_after_read")
    /\ UNCHANGED <<read_error, bootstrap, entry, setlist_file, paste_file, credential_file, file_lines,
                   rd_i, setlist, curl_lines, cl_i, headers, parsed, ytmusic,
                   playlist_name, description, confirm, playlist_id,
                   successful_adds, failed_songs, song_i, summary, ret, calls,
                   url_printed>>

\* if not setlist: return
MainAfterRead ==
    /\ pc = "main_after_read"
    /\ pc' = IF setlist = <<>> THEN "done" ELSE "main_prompt"
    /\ UNCHANGED <<read_error, bootstrap, entry, stack, setlist_file, paste_file, credential_file,
                   file_lines, rd_i, setlist, curl_lines, cl_i, headers, parsed,
                   ytmusic, playlist_name, description, confirm, playlist_id,
                   successful_adds, failed_songs, song_i, summary, ret, calls,
                   url_printed>>

\* The two prompts; the playlist is built only when the answer is confirmed.
MainPrompt ==
    /\ pc = "main_prompt"
    /\ \E name \in NameAnswers, answer \in ConfirmAnswers :
          /\ playlist_name' = PlaylistNameOf(name)
          /\ description' = DescriptionOf(setlist)
          /\ confirm' = ConfirmOf(answer)
          /\ IF Confirmed(confirm')
             THEN Call("create_start", "main_after_create")
             ELSE pc' = "done" /\ UNCHANGED stack
    /\ UNCHANGED <<read_error, bootstrap, entry, setlist_file, paste_file, credential_file, file_lines,
                   rd_i, setlist, curl_lines, cl_i, headers, parsed, ytmusic,
                   playlist_id, successful_adds, failed_songs, song_i, summary,
                   ret, calls, url_printed>>

\* if playlist_id: print the playlist URL
MainAfterCreate ==
    /\ pc = "main_after_create"
    /\ url_printed' = IdTruthy(ret)
    /\ pc' = "done"
    /\ UNCHANGED <<read_error, bootstrap, entry, stack, setlist_file, paste_file, credential_file,
                   file_lines, rd_i, setlist, curl_lines, cl_i, headers, parsed,
                   ytmusic, playlist_name, description, confirm, playlist_id,
                   successful_adds, failed_songs, song_i, summary, ret, calls>>

(* --------------------------------------------------------- specification *)

Next ==
    \/ ExtractOpen
    \/ ExtractScan
    \/ ExtractFinish
    \/ SetupStart
    \/ SetupAfterExtract
    \/ ReadOpen
    \/ ReadScan
    \/ ReadReturn
    \/ CreateStart
    \/ CreatePlaylist
    \/ SongLoop
    \/ Summary
    \/ MainStart
    \/ MainAfterRead
    \/ MainPrompt
    \/ MainAfterCreate

Spec ==
    Init /\ [][Next]_vars

\* The runs of main and of the playlist builder.  The program is one thread of
\* blocking calls, each of which returns or raises: once the playlist is
\* created, the loop takes its next pass and the summary follows the last one.
InitRun ==
    Init /\ entry \in {"main", "create_playlist_from_setlist"}

FairSpec ==
    InitRun /\ [][Next]_vars /\ WF_vars(SongLoop) /\ WF_vars(Summary)

(* ------------------------------------------------- what the claims read *)

\* The indices of the search calls in the log, and the index of the i-th.
SearchAt ==
    {k \in DOMAIN calls : calls[k].op = "search"}
NthSearch(i) ==
    CHOOSE k \in SearchAt : Cardinality({j \in SearchAt : j <= k}) = i

\* The queries searched, in the order of the calls.
Searched ==
    [i \in 1 .. Cardinality(SearchAt) |-> calls[NthSearch(i)].arg[1]]

\* The log shows the i-th search to have led to an add call that returned.
AddedByLog(i) ==
    LET k == NthSearch(i)
    IN  /\ k < Len(calls)
        /\ calls[k + 1].op = "add"
        /\ calls[k + 1].resp.kind = "ok"

\* The elements of s at the positions in P, in the order of s.
Pick(s, P) ==
    LET F[i \in 0 .. Len(s)] ==
            IF i = 0 THEN <<>>
            ELSE IF i \in P THEN Append(F[i - 1], s[i]) ELSE F[i - 1]
    IN  F[Len(s)]

\* The queries whose pass the log shows to have failed, in setlist order.
FailedByLog ==
    Pick(setlist, {i \in 1 .. Cardinality(SearchAt) : ~AddedByLog(i)})

CreateRaised ==
    \E k \in DOMAIN calls : calls[k].op = "create" /\ calls[k].resp.kind = "raise"

(* ---------------------------------------------------------------- claims *)

\* C1: during the loop successful_adds plus the length of failed_songs is the
\* number of queries processed so far, and once the loop has completed (the
\* summary is printed) the reported successes plus the reported failures are
\* the length of the setlist.
C1_SuccessesPlusFailures ==
    /\ pc = "song_loop" => successful_adds + Len(failed_songs) = song_i - 1
    /\ summary # None =>
          /\ successful_adds + Len(failed_songs) = Len(setlist)
          /\ summary[1].added + Len(summary[1].failed) = summary[1].total
          /\ summary[1].total = Len(setlist)

C1_Witness ==
    /\ summary # None
    /\ successful_adds >= 1
    /\ Len(failed_songs) >= 2

\* C2: once the playlist is created, whatever fails for single songs, the run
\* reaches the summary and returns the playlist identifier, having searched
\* every query of the setlist once, in setlist order, and having recorded
\* exactly the failed queries in failed_songs.
C2_FailureNeverAbortsBatch ==
    [](playlist_id # None =>
          <>(/\ summary # None
             /\ ret = playlist_id
             /\ Searched = setlist
             /\ failed_songs = FailedByLog))

\* A run in which the first song's search raised and a later song was added.
C2_Witness ==
    /\ summary # None
    /\ ret = playlist_id
    /\ Len(calls) >= 3
    /\ calls[2].op = "search"
    /\ calls[2].resp.kind = "raise"
    /\ successful_adds >= 1

\* C3: when create_playlist raised, the function returns None and no search
\* and no add call is ever issued.
C3_CreateFailureIsFatal ==
    CreateRaised =>
        /\ ret = None
        /\ \A k \in DOMAIN calls : calls[k].op = "create"

C3_Witness ==
    /\ CreateRaised
    /\ Len(setlist) >= 2
    /\ pc = "done"

\* C4: when the session bootstrapper yields no client (paste.txt is absent,
\* the parser reported failure, or writing the credential file or constructing
\* the client raised) the builder returns None and no remote call is issued.
SessionUnavailable ==
    /\ ytmusic # NotReturned
    /\ \/ paste_file = None
       \/ parsed = None
       \/ bootstrap \in {"write_raises", "client_raises"}

C4_NoClientNoRemoteCall ==
    SessionUnavailable =>
        /\ ytmusic = None
        /\ calls = <<>>
        /\ ret \in {NotReturned, None}
        /\ pc = "done" => ret = None

\* The parse gave headers, but the bootstrap raised, and the run is over.
C4_Witness ==
    /\ SessionUnavailable
    /\ bootstrap = "client_raises"
    /\ Len(setlist) >= 1
    /\ pc = "done"

\* C5 as stated: after the loop the function returns the identifier along with
\* the counts of attempted and succeeded songs and the failed queries.
C5_ReturnsCountsAndFailures ==
    summary # None =>
        ret = <<playlist_id[1], Len(setlist), successful_adds, failed_songs>>

\* C5 as amended: after the loop the function returns the playlist identifier
\* alone; the counts of attempted and succeeded songs and the failed queries,
\* in setlist order, are printed in the summary.
C5_ReturnsIdPrintsSummary ==
    summary # None =>
        /\ ret = playlist_id
        /\ ret \in {Some(id) : id \in PlaylistIds}
        /\ summary[1].total = Len(setlist)
        /\ summary[1].added = Len(setlist) - Len(FailedByLog)
        /\ summary[1].failed = FailedByLog

C5_Witness ==
    /\ summary # None
    /\ ret = playlist_id
    /\ summary[1].added >= 1
    /\ Len(summary[1].failed) >= 2
    /\ summary[1].failed[1] # summary[1].failed[2]

\* C6: when the scan of all fragments leaves "authorization" or "cookie" out
\* of the header map, the parser returns None and adds no default to the map.
C6_MissingCriticalFails ==
    [][(/\ pc = "extract_scan"
        /\ cl_i > Len(curl_lines)
        /\ \/ KeyAuthorization \notin DOMAIN headers
           \/ KeyCookie \notin DOMAIN headers)
       => (parsed' = None /\ headers' = headers)]_vars

\* A capture with an authorization header and no cookie was rejected.
C6_Witness ==
    /\ entry = "extract_headers_from_curl"
    /\ pc = "done"
    /\ parsed = None
    /\ KeyAuthorization \in DOMAIN headers
    /\ KeyCookie \notin DOMAIN headers

\* A fragment that is a header of a name, one that holds an authorization
\* header, and one that holds a cookie flag.
IsHeaderFragmentOf(raw, key) ==
    LET line == Strip(raw)
    IN  /\ HasHeaderMarker(line)
        /\ Contains(HeaderContent(line), <<":">>)
        /\ HeaderKey(HeaderContent(line)) = key
IsAuthorizationFragment(raw) ==
    IsHeaderFragmentOf(raw, KeyAuthorization)
IsCookieFragment(raw) ==
    HasCookieMarker(Strip(raw))

\* The value the capture gives a key explicitly: that of the last fragment
\* that is a header of this name.
ExplicitIn(lines, key) ==
    \E i \in DOMAIN lines : IsHeaderFragmentOf(lines[i], key)
ExplicitValue(lines, key) ==
    LET last == SetMax({i \in DOMAIN lines : IsHeaderFragmentOf(lines[i], key)})
    IN  HeaderValue(HeaderContent(Strip(lines[last])))

\* C7: a capture with an authorization header fragment and a cookie fragment
\* parses, and the result holds every key of the defaults table, with the
\* explicit value when the capture gives one and the default otherwise.
C7_CompleteCaptureParses ==
    (/\ parsed # NotReturned
     /\ paste_file # None
     /\ \E i \in DOMAIN curl_lines : IsAuthorizationFragment(curl_lines[i])
     /\ \E j \in DOMAIN curl_lines : IsCookieFragment(curl_lines[j]))
    => /\ parsed # None
       /\ \A key \in DOMAIN Defaults :
             /\ key \in DOMAIN parsed[1]
             /\ parsed[1][key] = IF ExplicitIn(curl_lines, key)
                                 THEN ExplicitValue(curl_lines, key)
                                 ELSE Defaults[key]

\* The lines of a text as its line breaks cut it, without the line breaks.
BreaksOf(text) ==
    {i \in DOMAIN text : text[i] = "\n"}
LineCount(text) ==
    Cardinality(BreaksOf(text))
    + (IF text # <<>> /\ text[Len(text)] # "\n" THEN 1 ELSE 0)
LineOf(text, k) ==
    LET before == {i \in BreaksOf(text) :
                       Cardinality({j \in BreaksOf(text) : j <= i}) = k - 1}
        after  == {i \in BreaksOf(text) :
                       Cardinality({j \in BreaksOf(text) : j <= i}) = k}
        from   == IF before = {} THEN 1 ELSE SetMin(before) + 1
        to     == IF after = {} THEN Len(text) ELSE SetMin(after) - 1
    IN  SubSeq(text, from, to)

\* A line that is a query: it has a character that is not whitespace, and the
\* first such character is not '#'.
IsQueryLine(line) ==
    LET solid == {i \in DOMAIN line : line[i] \notin Whitespace}
    IN  solid # {} /\ line[SetMin(solid)] # "#"

\* The queries of a text: its query lines, stripped, in file order.
QueriesOf(text) ==
    LET all == [k \in 1 .. LineCount(text) |-> LineOf(text, k)]
    IN  [k \in DOMAIN Pick(all, {i \in DOMAIN all : IsQueryLine(all[i])}) |->
            Strip(Pick(all, {i \in DOMAIN all : IsQueryLine(all[i])})[k])]

ReaderReturned ==
    /\ entry \in {"main", "read_setlist_from_file"}
    /\ pc \notin {"main_start", "read_open", "read_scan"}

\* C8: for a readable file the reader returns exactly the query lines of the
\* file, stripped, in file order, as many as the file has; for a missing file
\* it returns the empty sequence.
C8_ReaderReturnsQueryLines ==
    ReaderReturned =>
        /\ setlist_file = None => setlist = <<>>
        /\ (setlist_file # None /\ ~read_error) =>
              /\ setlist = QueriesOf(setlist_file[1])
              /\ Len(setlist) =
                    Cardinality({k \in 1 .. LineCount(setlist_file[1]) :
                                    IsQueryLine(LineOf(setlist_file[1], k))})

\* Two different queries were read from a file that also has another line.
C8_Witness ==
    /\ ReaderReturned
    /\ ~read_error
    /\ Len(setlist) = 2
    /\ setlist[1] # setlist[2]
    /\ Len(file_lines) > 2

\* In main, the builder has been entered, the session bootstrapped, or a
\* remote call issued.
RemoteTouched ==
    \/ calls # <<>>
    \/ ytmusic # NotReturned
    \/ parsed # NotReturned
    \/ credential_file # None
    \/ ret # NotReturned
    \/ \E k \in DOMAIN stack : stack[k] = "main_after_create"

\* C9: in main no remote call is issued and no session is bootstrapped unless
\* the reader returned a non-empty setlist and the confirmation was 'y' or
\* 'yes'; with an empty setlist or another answer main ends with no remote
\* call.
C9_NothingRemoteBeforeConfirmation ==
    entry = "main" =>
        /\ RemoteTouched => (setlist # <<>> /\ confirm \in {AnswerY, AnswerYes})
        /\ (pc = "done" /\ (setlist = <<>> \/ confirm \notin {AnswerY, AnswerYes}))
              => (calls = <<>> /\ ~url_printed)

C9_Witness ==
    /\ entry = "main"
    /\ pc = "done"
    /\ confirm = AnswerYes
    /\ Len(calls) >= 3

\* C10: after the pass over a fragment that holds a cookie flag, the header
\* map holds that fragment's cookie string under "cookie", whatever else the
\* fragment holds.
C10_CookieOfEveryCookieFragmentStored ==
    (/\ pc = "extract_scan"
     /\ cl_i > 1
     /\ HasCookieMarker(Strip(curl_lines[cl_i - 1])))
    => /\ KeyCookie \in DOMAIN headers
       /\ headers[KeyCookie] = CookieContent(Strip(curl_lines[cl_i - 1]))
====
